---------------------------- MODULE Spec2Model ----------------------------
(***************************************************************************)
(* Model of the 68HCS12 input-capture histogram program (src/main.c,       *)
(* src/globals.h).  The main flow (main, pre_capture, the busy wait,       *)
(* post_capture) is one process whose position is pc; the channel-1        *)
(* interrupt service routine OC1_isr runs to completion between two main   *)
(* flow statements whenever the channel flag is set and the interrupt is   *)
(* enabled.  Edges on the input pin latch the free running counter into    *)
(* TC1 and set the channel flag, whether or not the interrupt is enabled.  *)
(***************************************************************************)
EXTENDS Integers, Sequences, FiniteSets

\* ------------------------------------------------------------ constants

\* globals.h:4 defines NUM_CAPTURES as 1000; the model scales it down.
NUM_CAPTURES == 4

NUM_BUCKETS == 100

LOW_PERIOD == 950

\* UINT16 arithmetic is modulo 2^16.
UINT16_MOD == 65536

\* How many times the driver of SpecProc runs process_values on one buffer.
MaxRuns == 2

\* The history variable round counts armings up to MaxRound and stays there.
MaxRound == 2

\* Timer values an edge can latch while the whole program runs: deltas of 976
\* and 1000 (counted), 0 and 1976 (not counted) and deltas that wrap.
EdgeTimes == {1000, 2000, 2976}

\* Timer values of the buffers process_values is applied to in SpecProc:
\* deltas of 0, 50, 950 (first bucket), 976, 1000, 1049 (last bucket),
\* 1050 (first value above the table), 2024, and deltas that wrap; 1000, 2000,
\* 2976, 3950 is a buffer all of whose deltas are counted.
SampleValues == {1000, 1950, 2000, 2976, 3049, 3050, 3950, 5000}

VARIABLES
    pc,                 \* position of the main flow
    capture_values,     \* UINT16 capture_values[NUM_CAPTURES]
    capture_idx,        \* UINT16 capture_idx
    finished_capturing, \* UINT8 finished_capturing
    num_occurances,     \* UINT16 num_occurances[NUM_BUCKETS]
    i,                  \* loop index of process_values
    lines,              \* bucket lines printed since the last prompt
    TIE_C1I,            \* channel 1 interrupt enable bit
    TFLG1_C1F,          \* channel 1 interrupt flag
    TC1,                \* channel 1 capture register
    TSCR1_TEN,          \* timer enable bit
    I_mask,             \* CPU interrupt mask (1 = interrupts masked)
    isr_calls,          \* history: OC1_isr invocations since the last arming
    completions,        \* history: times the flag was set since the last reset
    wr_idx,             \* history: index of the last store of OC1_isr, -1 if none
    round_samples,      \* history: values OC1_isr stored since the last arming
    edge_armed,         \* history: TC1 was latched while the interrupt was enabled
    runs,               \* history: completed runs of process_values since init_buckets
    snapshot,           \* history: the table as the first run left it
    round,              \* history: armings so far, saturating at MaxRound
    hoist,              \* the build keeps the flag in a register across the busy wait
    flag_reg,           \* that register: -1 before the load, else the flag as loaded
    ctl_events          \* history: controller events since the last prompt

vars == <<pc, capture_values, capture_idx, finished_capturing, num_occurances,
          i, lines, TIE_C1I, TFLG1_C1F, TC1, TSCR1_TEN, I_mask,
          isr_calls, completions, wr_idx, round_samples, edge_armed,
          runs, snapshot, round, hoist, flag_reg, ctl_events>>

buffer_vars == <<capture_values, capture_idx, finished_capturing>>
hw_vars     == <<TIE_C1I, TFLG1_C1F, TC1, TSCR1_TEN, I_mask, edge_armed>>
isr_hist    == <<isr_calls, completions, wr_idx, round_samples, round>>
proc_hist   == <<runs, snapshot>>
build_vars  == <<hoist, flag_reg>>

\* ------------------------------------------------------------ helpers

ZeroBuckets == [k \in 0..(NUM_BUCKETS - 1) |-> 0]

ZeroCaptures == [k \in 0..(NUM_CAPTURES - 1) |-> 0]

\* A store into an array; an index outside the array leaves the array alone.
Store_after_increment(arr, idx, v) ==
    IF idx + 1 \in DOMAIN arr THEN [arr EXCEPT ![idx + 1] = v] ELSE arr

Store(arr, idx, v) ==
    IF idx \in DOMAIN arr THEN [arr EXCEPT ![idx] = v] ELSE arr

\* memset(num_occurances, 0, NUM_BUCKETS * sizeof(UINT16)): nbytes bytes from
\* the start of the table are cleared, two bytes per entry.
memset_buckets(occ, nbytes) ==
    [k \in DOMAIN occ |-> IF 2 * k + 1 < nbytes THEN 0 ELSE occ[k]]

init_buckets_half(occ) == memset_buckets(occ, NUM_BUCKETS)

init_buckets(occ) == memset_buckets(occ, NUM_BUCKETS * 2)

\* The test of the first branch of OC1_isr.
IsrAccepts_le(idx) == idx <= NUM_CAPTURES

IsrAccepts(idx) == idx < NUM_CAPTURES

\* UINT16 compare_idx = capture_values[i] - capture_values[i-1];
\* compare_idx -= LOW_PERIOD;  both in UINT16 arithmetic.
compare_idx_signed(cur, prev) == (cur - prev) - LOW_PERIOD

compare_idx(cur, prev) ==
    (((cur - prev) % UINT16_MOD) - LOW_PERIOD) % UINT16_MOD

\* if (compare_idx < 100)
InTable(c) == c < 100

\* One iteration of the loop of process_values on the pair (prev, cur).
bucket_step_set(occ, cur, prev) ==
    LET c == compare_idx(cur, prev)
    IN  IF InTable(c) THEN Store(occ, c, 1) ELSE occ

bucket_step_swapped(occ, cur, prev) ==
    LET c == compare_idx(prev, cur)
    IN  IF InTable(c) /\ c \in DOMAIN occ
        THEN [occ EXCEPT ![c] = (occ[c] + 1) % UINT16_MOD]
        ELSE occ

\* ++num_occurances[compare_idx] is a UINT16 increment.
bucket_step(occ, cur, prev) ==
    LET c == compare_idx(cur, prev)
    IN  IF InTable(c) /\ c \in DOMAIN occ
        THEN [occ EXCEPT ![c] = (occ[c] + 1) % UINT16_MOD]
        ELSE occ

\* printf's %d prints a 16-bit argument as a signed int.
AsInt16(x) ==
    LET u == x % UINT16_MOD
    IN  IF 2 * u >= UINT16_MOD THEN u - UINT16_MOD ELSE u

\* The loop of print_values from index k on: one line per non-zero bucket,
\* carrying the two numbers printf("Bucket %3d: %d\r\n", ...) prints.
PrintLine_no_offset(occ, k) == <<AsInt16(k), AsInt16(occ[k])>>

PrintLine(occ, k) == <<AsInt16(k + LOW_PERIOD), AsInt16(occ[k])>>

RECURSIVE PrintFrom(_, _)
PrintFrom(occ, k) ==
    IF k >= NUM_BUCKETS THEN <<>>
    ELSE (IF occ[k] # 0 THEN <<PrintLine(occ, k)>> ELSE <<>>)
         \o PrintFrom(occ, k + 1)

\* ------------------------------------------------------------ initial state

\* Reset state of the microcontroller: statics are zero, the timer is off,
\* interrupts are masked and the channel interrupt is disabled.
Init ==
    /\ pc = "main"
    /\ capture_values = ZeroCaptures
    /\ capture_idx = 0
    /\ finished_capturing = 0
    /\ num_occurances = ZeroBuckets
    /\ i = 0
    /\ lines = <<>>
    /\ TIE_C1I = 0
    /\ TFLG1_C1F = 0
    /\ TC1 = 0
    /\ TSCR1_TEN = 0
    /\ I_mask = 1
    /\ isr_calls = 0
    /\ completions = 0
    /\ wr_idx = -1
    /\ round_samples = <<>>
    /\ edge_armed = FALSE
    /\ runs = 0
    /\ snapshot = ZeroBuckets
    /\ round = 0
    /\ hoist \in BOOLEAN
    /\ flag_reg = -1
    /\ ctl_events = <<>>

\* ------------------------------------------------------------ hardware

\* A rising edge on the channel 1 pin (TCTL4_EDG1A = 1, TCTL4_EDG1B = 0) while
\* the timer runs: the counter is latched into TC1 and the channel flag is
\* set.  This happens whether or not TIE_C1I is set.
Edge ==
    /\ TSCR1_TEN = 1
    /\ \E t \in EdgeTimes : TC1' = t
    /\ TFLG1_C1F' = 1
    /\ edge_armed' = (TIE_C1I = 1)
    /\ UNCHANGED <<pc, buffer_vars, num_occurances, i, lines, TIE_C1I,
                   TSCR1_TEN, I_mask, isr_hist, proc_hist, build_vars, ctl_events>>

\* The else-if branch of OC1_isr: TIE_C1I = 0; finished_capturing = 1.
isr_complete_keep_enabled(tie, fin) == <<tie, 1>>

isr_complete_no_flag(tie, fin) == <<0, fin>>

isr_complete(tie, fin) == <<0, 1>>

\* TFLG1 = TFLG1_C1F_MASK: writing the mask clears the channel 1 flag.
isr_ack_accept_only(flag, accepted) == IF accepted THEN 0 ELSE flag

isr_ack(flag, accepted) == 0

\* The interrupt is taken when the channel flag is set, the channel interrupt
\* is enabled and the CPU does not mask interrupts; the routine runs to
\* completion.
OC1_isr ==
    /\ I_mask = 0
    /\ TIE_C1I = 1
    /\ TFLG1_C1F = 1
    /\ IF IsrAccepts(capture_idx)
       THEN /\ capture_values' = Store(capture_values, capture_idx, TC1 % UINT16_MOD)
            /\ capture_idx' = (capture_idx + 1) % UINT16_MOD
            /\ wr_idx' = capture_idx
            /\ round_samples' = Append(round_samples, TC1 % UINT16_MOD)
            /\ UNCHANGED <<TIE_C1I, finished_capturing, completions>>
       ELSE IF capture_idx = NUM_CAPTURES
       THEN /\ TIE_C1I' = isr_complete(TIE_C1I, finished_capturing)[1]
            /\ finished_capturing' = isr_complete(TIE_C1I, finished_capturing)[2]
            /\ completions' = IF finished_capturing' = 1 THEN completions + 1
                              ELSE completions
            /\ UNCHANGED <<capture_values, capture_idx, wr_idx, round_samples>>
       ELSE UNCHANGED <<capture_values, capture_idx, wr_idx, round_samples,
                        TIE_C1I, finished_capturing, completions>>
    /\ TFLG1_C1F' = isr_ack(TFLG1_C1F, IsrAccepts(capture_idx))
    /\ isr_calls' = isr_calls + 1
    /\ UNCHANGED <<pc, num_occurances, i, lines, TC1, TSCR1_TEN, I_mask,
                   edge_armed, round, proc_hist, build_vars, ctl_events>>

\* ------------------------------------------------------------ main flow

\* The value InitializeTimer writes to TIE_C1I.
InitialTIE_enabled(tie) == 1

InitialTIE(tie) == 0

\* main up to the loop: capture_idx = 0, InitializeSerialPort and
\* InitializeTimer (channel flag cleared, channel interrupt disabled, timer
\* enabled, CPU interrupts enabled).  TC1 is an input capture register, so
\* the write of TC1_VAL does not change it.
main_init ==
    /\ pc = "main"
    /\ capture_idx' = 0
    /\ TFLG1_C1F' = 0
    /\ TIE_C1I' = InitialTIE(TIE_C1I)
    /\ TSCR1_TEN' = 1
    /\ I_mask' = 0
    /\ pc' = "pre_prompt"
    /\ UNCHANGED <<capture_values, finished_capturing, num_occurances, i, lines,
                   TC1, edge_armed, isr_hist, proc_hist, build_vars, ctl_events>>

\* pre_capture: printf("Strike enter to begin capture.\r\n")
pre_prompt ==
    /\ pc = "pre_prompt"
    /\ lines' = <<>>
    /\ pc' = "pre_init"
    /\ ctl_events' = <<"prompt">>
    /\ UNCHANGED <<buffer_vars, num_occurances, i, hw_vars, isr_hist, proc_hist,
                   build_vars>>

\* pre_capture: init_buckets()
pre_init_buckets ==
    /\ pc = "pre_init"
    /\ num_occurances' = init_buckets(num_occurances)
    /\ runs' = 0
    /\ snapshot' = ZeroBuckets
    /\ pc' = "pre_flag"
    /\ ctl_events' = Append(ctl_events, "reset_table")
    /\ UNCHANGED <<buffer_vars, i, lines, hw_vars, isr_hist, build_vars>>

\* pre_capture: finished_capturing = 0
pre_clear_flag_swapped ==
    /\ pc = "pre_flag"
    /\ capture_idx' = 0
    /\ pc' = "pre_idx"
    /\ UNCHANGED <<capture_values, finished_capturing, num_occurances, i, lines,
                   hw_vars, isr_hist, proc_hist, build_vars>>
    /\ ctl_events' = Append(ctl_events, "reset_idx")

pre_clear_flag ==
    /\ pc = "pre_flag"
    /\ finished_capturing' = 0
    /\ completions' = 0
    /\ pc' = "pre_idx"
    /\ UNCHANGED <<capture_values, capture_idx, num_occurances, i, lines, hw_vars,
                   isr_calls, wr_idx, round_samples, round, proc_hist, build_vars>>
    /\ ctl_events' = Append(ctl_events, "reset_flag")

\* pre_capture: capture_idx = 0
pre_clear_idx_no_wait ==
    /\ pc = "pre_idx"
    /\ capture_idx' = 0
    /\ pc' = "pre_arm"
    /\ ctl_events' = Append(ctl_events, "reset_idx")
    /\ UNCHANGED <<capture_values, finished_capturing, num_occurances, i, lines,
                   hw_vars, isr_hist, proc_hist, build_vars>>

pre_clear_idx ==
    /\ pc = "pre_idx"
    /\ capture_idx' = 0
    /\ pc' = "pre_getchar"
    /\ ctl_events' = Append(ctl_events, "reset_idx")
    /\ UNCHANGED <<capture_values, finished_capturing, num_occurances, i, lines,
                   hw_vars, isr_hist, proc_hist, build_vars>>

\* pre_capture: GetChar() returns once the operator has struck a key.
pre_GetChar ==
    /\ pc = "pre_getchar"
    /\ pc' = "pre_arm"
    /\ ctl_events' = Append(ctl_events, "ack")
    /\ UNCHANGED <<buffer_vars, num_occurances, i, lines, hw_vars, isr_hist,
                   proc_hist, build_vars>>

\* pre_capture: TIE_C1I = 1
pre_arm ==
    /\ pc = "pre_arm"
    /\ TIE_C1I' = 1
    /\ isr_calls' = 0
    /\ wr_idx' = -1
    /\ round_samples' = <<>>
    /\ round' = IF round < MaxRound THEN round + 1 ELSE round
    /\ pc' = "wait"
    /\ ctl_events' = Append(ctl_events, "arm")
    /\ UNCHANGED <<buffer_vars, num_occurances, i, lines, TFLG1_C1F, TC1,
                   TSCR1_TEN, I_mask, edge_armed, completions, proc_hist,
                   build_vars>>

\* finished_capturing is not declared volatile, and OC1_isr writes it while
\* the main flow spins on it: the build may load it once before the loop and
\* test the register from then on.  In such a build this is that load.
wait_load ==
    /\ pc = "wait"
    /\ hoist
    /\ flag_reg = -1
    /\ flag_reg' = finished_capturing
    /\ UNCHANGED <<pc, buffer_vars, num_occurances, i, lines, hw_vars, isr_hist,
                   proc_hist, hoist, ctl_events>>

\* The value the test of while (!finished_capturing) sees: the variable, or
\* the register the build loaded it into (0 while that load has not happened,
\* when the loop cannot be left yet).
LoopFlag ==
    IF hoist THEN (IF flag_reg = -1 THEN 0 ELSE flag_reg) ELSE finished_capturing

\* main: while (!finished_capturing) {} is left, and post_capture calls
\* process_values, whose loop starts at i = 1.  While the test sees 0 the
\* loop leaves every variable unchanged.
wait_exit_inverted ==
    /\ pc = "wait"
    /\ LoopFlag = 0
    /\ pc' = "process"
    /\ i' = 1
    /\ flag_reg' = -1
    /\ ctl_events' = Append(ctl_events, "observed")
    /\ UNCHANGED <<buffer_vars, num_occurances, lines, hw_vars, isr_hist,
                   proc_hist, hoist>>

wait_exit_consume ==
    /\ pc = "wait"
    /\ LoopFlag # 0
    /\ finished_capturing' = 0
    /\ pc' = "process"
    /\ i' = 1
    /\ flag_reg' = -1
    /\ ctl_events' = Append(ctl_events, "observed")
    /\ UNCHANGED <<capture_values, capture_idx, num_occurances, lines, hw_vars,
                   isr_hist, proc_hist, hoist>>

wait_exit ==
    /\ pc = "wait"
    /\ LoopFlag # 0
    /\ pc' = "process"
    /\ i' = 1
    /\ flag_reg' = -1
    /\ ctl_events' = Append(ctl_events, "observed")
    /\ UNCHANGED <<buffer_vars, num_occurances, lines, hw_vars, isr_hist,
                   proc_hist, hoist>>

\* process_values: one iteration of for (i = 1; i < NUM_CAPTURES; ++i).
process_step_le ==
    /\ pc = "process"
    /\ i <= NUM_CAPTURES
    /\ \E past \in SampleValues :
          num_occurances' =
              bucket_step(num_occurances,
                          IF i \in DOMAIN capture_values THEN capture_values[i] ELSE past,
                          capture_values[i - 1])
    /\ i' = i + 1
    /\ UNCHANGED <<pc, buffer_vars, lines, hw_vars, isr_hist, proc_hist,
                   build_vars, ctl_events>>

process_step ==
    /\ pc = "process"
    /\ i < NUM_CAPTURES
    /\ num_occurances' =
           bucket_step(num_occurances, capture_values[i], capture_values[i - 1])
    /\ i' = i + 1
    /\ UNCHANGED <<pc, buffer_vars, lines, hw_vars, isr_hist, proc_hist,
                   build_vars, ctl_events>>

\* process_values: the loop test fails and the function returns.
process_exit ==
    /\ pc = "process"
    /\ ~(i < NUM_CAPTURES)
    /\ i' = 0
    /\ runs' = runs + 1
    /\ snapshot' = IF runs = 0 THEN num_occurances ELSE snapshot
    /\ pc' = "print"
    /\ ctl_events' = Append(ctl_events, "process")
    /\ UNCHANGED <<buffer_vars, num_occurances, lines, hw_vars, isr_hist,
                   build_vars>>

\* print_values, and the return to the head of the loop of main.
print_values_skip_reset ==
    /\ pc = "print"
    /\ lines' = PrintFrom(num_occurances, 0)
    /\ pc' = "pre_getchar"
    /\ ctl_events' = Append(ctl_events, "print")
    /\ UNCHANGED <<buffer_vars, num_occurances, i, hw_vars, isr_hist, proc_hist,
                   build_vars>>

print_values ==
    /\ pc = "print"
    /\ lines' = PrintFrom(num_occurances, 0)
    /\ pc' = "pre_prompt"
    /\ ctl_events' = Append(ctl_events, "print")
    /\ UNCHANGED <<buffer_vars, num_occurances, i, hw_vars, isr_hist, proc_hist,
                   build_vars>>

Next ==
    \/ Edge
    \/ OC1_isr
    \/ main_init
    \/ pre_prompt
    \/ pre_init_buckets
    \/ pre_clear_flag
    \/ pre_clear_idx
    \/ pre_GetChar
    \/ pre_arm
    \/ wait_load
    \/ wait_exit
    \/ process_step
    \/ process_exit
    \/ print_values

Spec == Init /\ [][Next]_vars

\* ------------------------------------------------------------ process_values alone

\* A completed buffer handed to process_values with an all-zero table: the
\* state of the program when the busy wait is left, for any samples.
InitProc ==
    /\ pc = "process"
    /\ capture_values \in [0..(NUM_CAPTURES - 1) -> SampleValues]
    /\ capture_idx = NUM_CAPTURES
    /\ finished_capturing = 1
    /\ num_occurances = ZeroBuckets
    /\ i = 1
    /\ lines = <<>>
    /\ TIE_C1I = 0
    /\ TFLG1_C1F = 0
    /\ TC1 = capture_values[NUM_CAPTURES - 1]
    /\ TSCR1_TEN = 1
    /\ I_mask = 0
    /\ isr_calls = NUM_CAPTURES + 1
    /\ completions = 1
    /\ wr_idx = NUM_CAPTURES - 1
    /\ round_samples = [k \in 1..NUM_CAPTURES |-> capture_values[k - 1]]
    /\ edge_armed = TRUE
    /\ runs = 0
    /\ snapshot = ZeroBuckets
    /\ round = 1
    /\ hoist = FALSE
    /\ flag_reg = -1
    /\ ctl_events = <<"prompt", "reset_table", "reset_flag", "reset_idx", "ack",
                      "arm", "observed">>

\* process_values is called again on the same buffer, without init_buckets.
process_again ==
    /\ pc = "print"
    /\ runs < MaxRuns
    /\ pc' = "process"
    /\ i' = 1
    /\ UNCHANGED <<buffer_vars, num_occurances, lines, hw_vars, isr_hist,
                   proc_hist, build_vars, ctl_events>>

NextProc ==
    \/ process_step
    \/ process_exit
    \/ process_again

SpecProc == InitProc /\ [][NextProc]_vars

\* ------------------------------------------------------------ post_capture alone

\* post_capture on a completed buffer: process_values, then print_values.
NextPost ==
    \/ process_step
    \/ process_exit
    \/ print_values

SpecPost == InitProc /\ [][NextPost]_vars

\* ------------------------------------------------------------ live signal

\* The CPU keeps executing the main flow, the operator strikes a key, edges
\* keep arriving and a pending enabled interrupt is taken.
Fairness ==
    /\ WF_vars(main_init)
    /\ WF_vars(pre_prompt)
    /\ WF_vars(pre_init_buckets)
    /\ WF_vars(pre_clear_flag)
    /\ WF_vars(pre_clear_idx)
    /\ WF_vars(pre_GetChar)
    /\ WF_vars(pre_arm)
    /\ WF_vars(wait_load)
    /\ WF_vars(wait_exit)
    /\ WF_vars(process_step)
    /\ WF_vars(process_exit)
    /\ WF_vars(print_values)
    /\ WF_vars(Edge)
    /\ WF_vars(OC1_isr)

SpecLive == Spec /\ Fairness

\* ------------------------------------------------------------ properties

\* The 16-bit delta between sample j and the sample before it.
Delta16(cv, j) == (cv[j] - cv[j - 1]) % UINT16_MOD

\* How many adjacent pairs of the buffer cv have a delta that is k above LOW_PERIOD.
CountDeltas(cv, k) ==
    Cardinality({j \in 1..(NUM_CAPTURES - 1) : Delta16(cv, j) - LOW_PERIOD = k})

\* The same count for a sequence of samples.
CountSeqDeltas(sq, k) ==
    Cardinality({j \in 2..Len(sq) : ((sq[j] - sq[j - 1]) % UINT16_MOD) - LOW_PERIOD = k})

RECURSIVE SumBuckets(_, _)
SumBuckets(occ, k) ==
    IF k >= NUM_BUCKETS THEN 0 ELSE occ[k] + SumBuckets(occ, k + 1)

ExampleSamples == <<1000, 2000, 2976, 5000>>

IsExampleBuffer ==
    /\ NUM_CAPTURES = 4
    /\ \A k \in 0..3 : capture_values[k] = ExampleSamples[k + 1]

\* C1: in every reachable state capture_idx is in 0..NUM_CAPTURES, the buffer
\* has exactly NUM_CAPTURES slots, and the last store of OC1_isr (if any) was
\* at an index below NUM_CAPTURES, so at most NUM_CAPTURES samples are stored
\* in a round.
C1_CapacityBound ==
    /\ capture_idx \in 0..NUM_CAPTURES
    /\ DOMAIN capture_values = 0..(NUM_CAPTURES - 1)
    /\ wr_idx \in -1..(NUM_CAPTURES - 1)
    /\ Len(round_samples) <= NUM_CAPTURES

C1_Witness ==
    /\ pc = "wait"
    /\ capture_idx = NUM_CAPTURES
    /\ wr_idx = NUM_CAPTURES - 1
    /\ finished_capturing = 1
    /\ round = 2

\* C2: OC1_isr is invoked at most NUM_CAPTURES + 1 times after an arming and
\* the flag is set at most once after a reset; the step that sets the flag is
\* invocation NUM_CAPTURES + 1, it stores nothing and it clears TIE_C1I; and
\* invocation NUM_CAPTURES + 1 always is that step.
C2_RejectOnce ==
    /\ [](isr_calls <= NUM_CAPTURES + 1 /\ completions <= 1)
    /\ [][(finished_capturing = 0 /\ finished_capturing' = 1)
            => /\ isr_calls = NUM_CAPTURES
               /\ isr_calls' = NUM_CAPTURES + 1
               /\ capture_values' = capture_values
               /\ capture_idx' = capture_idx
               /\ TIE_C1I = 1
               /\ TIE_C1I' = 0]_vars
    /\ [][(isr_calls = NUM_CAPTURES /\ isr_calls' = NUM_CAPTURES + 1)
            => /\ finished_capturing = 0
               /\ finished_capturing' = 1
               /\ capture_values' = capture_values]_vars

C2_Witness ==
    /\ finished_capturing = 1
    /\ isr_calls = NUM_CAPTURES + 1
    /\ completions = 1
    /\ TIE_C1I = 0
    /\ TFLG1_C1F = 1

\* C3: while the main flow is in process_values or about to run
\* print_values, finished_capturing is 1, the edge interrupt is disabled and
\* OC1_isr cannot be taken.
C3_ReadAfterComplete ==
    pc \in {"process", "print"}
        => /\ finished_capturing = 1
           /\ TIE_C1I = 0
           /\ ~ENABLED OC1_isr

C3_Witness ==
    /\ pc = "process"
    /\ i = 2
    /\ TFLG1_C1F = 1
    /\ I_mask = 0

C5_FlagAtCapacity ==
    capture_idx = NUM_CAPTURES => finished_capturing = 1

\* C5 amended: the flag is set by the first OC1_isr invocation that finds the
\* buffer full.  Whenever capture_idx equals NUM_CAPTURES and the flag is 0,
\* either the main flow is in the busy wait with the edge interrupt enabled,
\* or pre_capture has cleared the flag and is about to clear the cursor; and
\* an OC1_isr invocation that finds capture_idx = NUM_CAPTURES sets the flag.
C5_FlagOnNextEdge ==
    /\ []((capture_idx = NUM_CAPTURES /\ finished_capturing = 0)
            => \/ (pc = "wait" /\ TIE_C1I = 1 /\ I_mask = 0)
               \/ pc = "pre_idx")
    /\ [][(capture_idx = NUM_CAPTURES /\ isr_calls' = isr_calls + 1)
            => finished_capturing' = 1]_vars

C5_Witness ==
    /\ pc = "wait"
    /\ capture_idx = NUM_CAPTURES
    /\ finished_capturing = 0
    /\ TIE_C1I = 1
    /\ TFLG1_C1F = 0

\* C6: a step that takes finished_capturing from 1 to another value is the
\* write finished_capturing = 0 of pre_capture; every other step (an edge, the
\* loop exit, process_values, print_values, the prompt, init_buckets) leaves a
\* set flag set.
C6_CompletionMonotone ==
    [][finished_capturing = 1
         => \/ finished_capturing' = 1
            \/ (pc = "pre_flag" /\ pc' = "pre_idx" /\ finished_capturing' = 0)]_vars

C6_Witness ==
    /\ finished_capturing = 1
    /\ pc = "pre_flag"
    /\ TFLG1_C1F = 1
    /\ capture_idx = NUM_CAPTURES
    /\ round = 2

\* C7: after one run of process_values on a completed buffer from an
\* all-zero table, bucket k holds the number of adjacent pairs whose 16-bit
\* delta minus LOW_PERIOD is k, the table sums to the number of deltas in
\* range, and the samples 1000, 2000, 2976, 5000 give bucket 50 = 1,
\* bucket 26 = 1 and sum 2.
C7_Bucketing ==
    (pc = "print" /\ runs = 1)
        => /\ \A k \in 0..(NUM_BUCKETS - 1) :
                 num_occurances[k] = CountDeltas(capture_values, k)
           /\ SumBuckets(num_occurances, 0) =
                 Cardinality({j \in 1..(NUM_CAPTURES - 1) :
                     Delta16(capture_values, j) - LOW_PERIOD \in 0..(NUM_BUCKETS - 1)})
           /\ IsExampleBuffer
                 => /\ num_occurances[50] = 1
                    /\ num_occurances[26] = 1
                    /\ SumBuckets(num_occurances, 0) = 2

C7_Witness ==
    /\ pc = "print"
    /\ runs = 1
    /\ IsExampleBuffer
    /\ num_occurances[50] = 1
    /\ num_occurances[26] = 1

\* C8: in process_values, an index that passes the test compare_idx < 100 is
\* in 0..NUM_BUCKETS-1 and comes from a delta in LOW_PERIOD ..
\* LOW_PERIOD + NUM_BUCKETS - 1; and an iteration on a pair whose delta is
\* below LOW_PERIOD or at least LOW_PERIOD + NUM_BUCKETS changes no entry of
\* the table.
C8_ClampByExclusion ==
    /\ []((pc = "process" /\ i < NUM_CAPTURES)
            => LET c == compare_idx(capture_values[i], capture_values[i - 1])
                   d == Delta16(capture_values, i)
               IN  InTable(c)
                     => /\ c \in 0..(NUM_BUCKETS - 1)
                        /\ d >= LOW_PERIOD
                        /\ d < LOW_PERIOD + NUM_BUCKETS)
    /\ [][(/\ pc = "process"
           /\ i < NUM_CAPTURES
           /\ \/ Delta16(capture_values, i) < LOW_PERIOD
              \/ Delta16(capture_values, i) >= LOW_PERIOD + NUM_BUCKETS)
            => num_occurances' = num_occurances]_vars

C8_Witness ==
    /\ pc = "process"
    /\ i = 3
    /\ Delta16(capture_values, 1) = LOW_PERIOD + NUM_BUCKETS
    /\ Delta16(capture_values, 2) < LOW_PERIOD
    /\ num_occurances = ZeroBuckets

\* C9: the step that enables the edge interrupt leaves an all-zero table,
\* capture_idx = 0 and finished_capturing = 0; and when print_values is about
\* to report, OC1_isr has stored exactly NUM_CAPTURES samples since the
\* arming and bucket k holds the number of adjacent pairs of those samples
\* whose delta minus LOW_PERIOD is k.
C9_NoLeak ==
    /\ [][(TIE_C1I = 0 /\ TIE_C1I' = 1)
            => /\ num_occurances' = ZeroBuckets
               /\ capture_idx' = 0
               /\ finished_capturing' = 0]_vars
    /\ [](pc = "print"
            => /\ Len(round_samples) = NUM_CAPTURES
               /\ \A k \in 0..(NUM_CAPTURES - 1) :
                     capture_values[k] = round_samples[k + 1]
               /\ \A k \in 0..(NUM_BUCKETS - 1) :
                     num_occurances[k] = CountSeqDeltas(round_samples, k))

C9_Witness ==
    /\ pc = "print"
    /\ round = 2
    /\ num_occurances[50] = 0
    /\ num_occurances[26] = 2

\* C10: after process_values has run twice on the same completed buffer
\* with no init_buckets in between, every entry of the table is twice the
\* entry the first run produced from the all-zero table.
C10_Doubling ==
    (pc = "print" /\ runs = 2)
        => \A k \in 0..(NUM_BUCKETS - 1) : num_occurances[k] = 2 * snapshot[k]

C10_Witness ==
    /\ pc = "print"
    /\ runs = 2
    /\ snapshot[50] = 2
    /\ num_occurances[50] = 4

\* C11: after print_values the printed lines are in strictly ascending order
\* of bucket value, each line is (k + LOW_PERIOD, num_occurances[k]) for an
\* index k with a non-zero count, there are as many lines as non-zero
\* buckets, and print_values changes no bucket.
C11_ReportOrdering ==
    /\ [](pc = "pre_prompt"
            => /\ Len(lines) =
                     Cardinality({k \in 0..(NUM_BUCKETS - 1) : num_occurances[k] # 0})
               /\ \A n \in 1..Len(lines) :
                     LET k == lines[n][1] - LOW_PERIOD
                     IN  /\ k \in 0..(NUM_BUCKETS - 1)
                         /\ num_occurances[k] # 0
                         /\ lines[n][2] = num_occurances[k]
               /\ \A n \in 1..Len(lines) : \A m \in 1..Len(lines) :
                     n < m => lines[n][1] < lines[m][1])
    /\ [][pc = "print" => num_occurances' = num_occurances]_vars

C11_Witness ==
    /\ pc = "pre_prompt"
    /\ Len(lines) = 2
    /\ lines[1] = <<LOW_PERIOD, 1>>
    /\ lines[2] = <<LOW_PERIOD + 76, 1>>
    /\ num_occurances[0] = 1

C12_LiveRoundsReloading ==
    /\ (pc = "wait" /\ ~hoist) ~> (pc = "print")
    /\ (pc = "print" /\ ~hoist) ~> (pc = "wait")

\* Position of the first occurrence of event e in ctl_events, 0 if none.
Pos(e) ==
    IF \E n \in 1..Len(ctl_events) : ctl_events[n] = e
    THEN CHOOSE n \in 1..Len(ctl_events) :
             /\ ctl_events[n] = e
             /\ \A m \in 1..(n - 1) : ctl_events[m] # e
    ELSE 0

Occurrences(e) == Cardinality({n \in 1..Len(ctl_events) : ctl_events[n] = e})

\* If b has happened since the last prompt, a happened before it.
Before(a, b) == Pos(b) # 0 => (Pos(a) # 0 /\ Pos(a) < Pos(b))

ControllerEvents ==
    {"prompt", "reset_table", "reset_flag", "reset_idx", "ack", "arm",
     "observed", "process", "print"}

\* C13: since the last prompt every controller event has happened at most
\* once and in the order resets, arm, completion observed, process_values,
\* print_values; process_values has run at most once since init_buckets; a
\* new round (a prompt) starts only at start-up or after print_values; and the
\* step that enables the interrupt is the arming of a round in which neither
\* process_values nor print_values has run.
C13_SequentialRounds ==
    /\ [](/\ \A e \in ControllerEvents : Occurrences(e) <= 1
          /\ Before("reset_table", "arm")
          /\ Before("reset_flag", "arm")
          /\ Before("reset_idx", "arm")
          /\ Before("arm", "observed")
          /\ Before("observed", "process")
          /\ Before("process", "print")
          /\ runs <= 1
          /\ (pc = "print" => runs = 1)
          /\ (Pos("observed") # 0 => finished_capturing = 1))
    /\ [][(ctl_events' # ctl_events /\ ctl_events'[Len(ctl_events')] = "prompt")
            => (ctl_events = <<>> \/ ctl_events[Len(ctl_events)] = "print")]_vars
    /\ [][(TIE_C1I = 0 /\ TIE_C1I' = 1)
            => /\ ctl_events'[Len(ctl_events')] = "arm"
               /\ Pos("process")' = 0
               /\ Pos("print")' = 0
               /\ runs = 0]_vars

C13_Witness ==
    /\ pc = "pre_prompt"
    /\ round = 2
    /\ Len(ctl_events) = 9
    /\ ctl_events[9] = "print"
    /\ runs = 1

\* C14 as stated: in every round the operator's acknowledgement (the return
\* of GetChar) comes first, then the resets of the table, the flag and the
\* cursor, then the enabling of the interrupt.
C14_AckThenReset ==
    /\ Before("ack", "reset_table")
    /\ Before("ack", "reset_flag")
    /\ Before("ack", "reset_idx")
    /\ Before("reset_idx", "arm")

\* C14 amended: in every round the table, the flag and the cursor are reset
\* first, then the controller blocks until GetChar returns, and only then the
\* interrupt is enabled; when GetChar returns and when the interrupt is
\* enabled the table is all-zero, capture_idx = 0 and finished_capturing = 0.
C14_ResetThenAck ==
    /\ [](/\ Before("reset_table", "reset_flag")
          /\ Before("reset_flag", "reset_idx")
          /\ Before("reset_idx", "ack")
          /\ Before("ack", "arm"))
    /\ [][(pc = "pre_getchar" /\ pc' # pc)
            => /\ num_occurances = ZeroBuckets
               /\ capture_idx = 0
               /\ finished_capturing = 0
               /\ TIE_C1I = 0
               /\ TIE_C1I' = 0]_vars
    /\ [][(TIE_C1I = 0 /\ TIE_C1I' = 1)
            => /\ ctl_events[Len(ctl_events)] = "ack"
               /\ num_occurances = ZeroBuckets
               /\ capture_idx = 0
               /\ finished_capturing = 0]_vars

C14_Witness ==
    /\ pc = "wait"
    /\ round = 2
    /\ ctl_events = <<"prompt", "reset_table", "reset_flag", "reset_idx", "ack", "arm">>
    /\ capture_idx = 0

\* C15: every step of OC1_isr leaves the channel 1 flag cleared, whether it
\* stored a sample or completed the round.
C15_FlagAcknowledged ==
    [][isr_calls' = isr_calls + 1 => (TFLG1_C1F = 1 /\ TFLG1_C1F' = 0)]_vars

C15_Witness ==
    /\ isr_calls = NUM_CAPTURES + 1
    /\ finished_capturing = 1
    /\ TFLG1_C1F = 0
    /\ pc = "wait"

\* C16: capture_idx decreases only in the write capture_idx = 0 of
\* pre_capture; a step of OC1_isr that changes the buffer or the cursor stores
\* TC1 at the old cursor and adds exactly 1 to the cursor; and the k-th sample
\* stored since the last arming is at capture_values[k-1] for as long as no
\* later arming has happened.
C16_OrderedAppend ==
    /\ [](/\ Len(round_samples) <= NUM_CAPTURES
          /\ \A k \in 1..Len(round_samples) :
                capture_values[k - 1] = round_samples[k]
          /\ (pc = "wait" => Len(round_samples) = capture_idx))
    /\ [][capture_idx' < capture_idx => (pc = "pre_idx" /\ capture_idx' = 0)]_vars
    /\ [][(isr_calls' = isr_calls + 1
            /\ (capture_idx' # capture_idx \/ capture_values' # capture_values))
            => /\ capture_idx' = capture_idx + 1
               /\ capture_values' = [capture_values EXCEPT ![capture_idx] = TC1]
               /\ \A k \in 0..(capture_idx - 1) :
                     capture_values'[k] = capture_values[k]]_vars

C16_Witness ==
    /\ pc = "wait"
    /\ round = 2
    /\ capture_idx = 3
    /\ round_samples = <<2976, 1000, 2000>>
    /\ capture_values[3] = 2976

\* C17: while fewer than NUM_CAPTURES + 1 interrupts have been taken since the
\* arming, finished_capturing is 0 and the main flow cannot leave the busy
\* wait (the only steps possible are edges, interrupts and the build's load of
\* the flag); the busy wait is left only with the flag set by interrupt
\* NUM_CAPTURES + 1, and process_values and print_values run only then.
C17_NoSignalHang ==
    /\ []((pc = "wait" /\ isr_calls < NUM_CAPTURES + 1)
            => /\ finished_capturing = 0
               /\ ~ENABLED wait_exit
               /\ ~ENABLED process_step
               /\ ~ENABLED process_exit
               /\ ~ENABLED print_values)
    /\ [][(pc = "wait" /\ pc' # "wait")
            => /\ isr_calls = NUM_CAPTURES + 1
               /\ finished_capturing = 1
               /\ pc' = "process"]_vars
    /\ [](pc \in {"process", "print"} => isr_calls = NUM_CAPTURES + 1)

C17_Witness ==
    /\ pc = "wait"
    /\ isr_calls = NUM_CAPTURES
    /\ capture_idx = NUM_CAPTURES
    /\ finished_capturing = 0
    /\ TFLG1_C1F = 0
    /\ ~hoist

\* C18 as stated: every sample OC1_isr stores was latched by an edge that
\* occurred while the interrupt was enabled.
C18_OnlyArmedEdges ==
    [][capture_idx' = capture_idx + 1 => edge_armed]_vars

\* C19: whenever finished_capturing is 1, capture_idx equals NUM_CAPTURES and
\* the edge interrupt is disabled; this includes the states inside the reset
\* sequence of pre_capture.
C19_FlagImpliesFullAndQuiet ==
    finished_capturing = 1 => (capture_idx = NUM_CAPTURES /\ TIE_C1I = 0)

C19_Witness ==
    /\ finished_capturing = 1
    /\ pc = "pre_init"
    /\ capture_idx = NUM_CAPTURES
    /\ TIE_C1I = 0
    /\ round = 1

\* C20: a run of process_values has the index i in 1..NUM_CAPTURES and has
\* computed i - 1 deltas, NUM_CAPTURES - 1 when it returns; during and after
\* the first run from an all-zero table the table sums to at most the number
\* of deltas computed, which is below 2^16, and no step of process_values
\* lowers a counter or changes capture_values, capture_idx,
\* finished_capturing or TIE_C1I.
C20_DeltaCount ==
    /\ [](pc = "process"
            => /\ i \in 1..NUM_CAPTURES
               /\ (runs = 0 => SumBuckets(num_occurances, 0) <= i - 1))
    /\ []((pc = "print" /\ runs = 1)
            => /\ SumBuckets(num_occurances, 0) <= NUM_CAPTURES - 1
               /\ NUM_CAPTURES - 1 < UINT16_MOD)
    /\ [][(pc = "process" /\ pc' = "print") => i = NUM_CAPTURES]_vars
    /\ [][pc = "process"
            => /\ capture_values' = capture_values
               /\ capture_idx' = capture_idx
               /\ finished_capturing' = finished_capturing
               /\ TIE_C1I' = TIE_C1I
               /\ \A k \in 0..(NUM_BUCKETS - 1) :
                     /\ num_occurances'[k] >= num_occurances[k]
                     /\ num_occurances'[k] <= num_occurances[k] + 1]_vars

C20_Witness ==
    /\ pc = "print"
    /\ runs = 1
    /\ SumBuckets(num_occurances, 0) = NUM_CAPTURES - 1
    /\ num_occurances[50] = 1
    /\ num_occurances[26] = 1
    /\ num_occurances[24] = 1

=============================================================================
